---- MODULE Spec2Model ----
(***************************************************************************)
(* A model of pyidr/study_parser.py: the StudyParser constructor and its   *)
(* helpers get_value, parse, get_lines, parse_annotation_file and          *)
(* parse_publications.                                                     *)
(*                                                                         *)
(* Representation of text.                                                 *)
(*   - A character is a one-character string; a tab-free piece of text (a  *)
(*     "segment") is a sequence of characters.                             *)
(*   - A string value is the non-empty sequence of its tab-separated       *)
(*     segments, so str.split('\t') is the sequence itself and the empty   *)
(*     string is << <<>> >> (one empty segment).                           *)
(*   - A line of the study file is [key, segs]: key is the text before the *)
(*     first tab (an atomic string), segs the tab-separated segments after *)
(*     it; segs = <<>> is a line holding no tab at all.                    *)
(***************************************************************************)
EXTENDS Integers, Sequences, FiniteSets

VARIABLES
    study_lines,   \* self._study_lines
    pc,            \* position of the constructor
    study,         \* self.study
    components,    \* self.components
    tIdx,          \* position of "for t in TYPES" (1, 2; 3 = loop over)
    n,             \* n of the current type (line 76)
    i,             \* iterations of "for i in range(n)" completed
    error,         \* kind of the exception that left the constructor, or ""
    probes,        \* os.path.exists answers seen, one record per component
    git,           \* the .git directory: "unprobed", "present" or "absent"
    sections,      \* the get_lines result of each component parsed
    removed,       \* the mandatory key line removed from a well-formed file
    call           \* the last direct call of get_lines / get_value

vars == <<study_lines, pc, study, components, tIdx, n, i, error, probes, git,
          sections, removed, call>>

----------------------------------------------------------------------------
(* Schema registry, lines 12-59.  Keys are kept as the source writes them:  *)
(* the backslashes of 'Comment\[...\]' are part of the dictionary key.      *)

TYPES == <<"Experiment", "Screen">>

StudyAccessionKey == "Comment\\[IDR Study Accession\\]"

NameKey(t) == IF t = "Experiment" THEN "Comment\\[IDR Experiment Name\\]"
              ELSE "Comment\\[IDR Screen Name\\]"

NumberKey(t) == IF t = "Experiment" THEN "Experiment Number" ELSE "Screen Number"

CountKey(t) == IF t = "Experiment" THEN "Study Experiments Number"
               ELSE "Study Screens Number"

MANDATORY_KEYS(t) ==
    CASE t = "Study" ->
           <<StudyAccessionKey, "Study Title", "Study Description", "Study Type",
             "Study Publication Title", "Study Author List", "Study Organism">>
      [] t = "Experiment" ->
           <<NameKey("Experiment"), "Experiment Description",
             "Experiment Imaging Method", "Experiment Number">>
      [] t = "Screen" ->
           <<NameKey("Screen"), "Screen Description", "Screen Imaging Method",
             "Screen Number", "Screen Type">>

OPTIONAL_KEYS(t) ==
    CASE t = "Study" ->
           <<"Study Publication Preprint", "Study PubMed ID", "Study PMC ID",
             "Study DOI", "Study Copyright", "Study License", "Study License URL",
             "Study Data Publisher", "Study Data DOI", "Study Experiments Number",
             "Study Screens Number">>
      [] t = "Experiment" ->
           <<"Experiment Data DOI", "Experiment Data Publisher">>
      [] t = "Screen" ->
           <<"Screen Data DOI", "Screen Data Publisher", "Screen Technology Type">>

Range(s) == {s[j] : j \in 1..Len(s)}

----------------------------------------------------------------------------
(* Error kinds: one per raise site of the source.                           *)

MissingMandatoryKey == "MissingMandatoryKey"
MissingComponentSection == "MissingComponentSection"
MismatchedPublicationCount == "MismatchedPublicationCount"
InvalidIdentifierFormat == "InvalidIdentifierFormat"
UnmatchedComponentName == "UnmatchedComponentName"
NoComponentsFound == "NoComponentsFound"
IndexError == "IndexError"
ValueError == "ValueError"

----------------------------------------------------------------------------
(* Characters and strings.                                                  *)

Digits == {"0", "1", "2", "3", "4", "5", "6", "7", "8", "9"}

Whitespace == {" "}

\* The characters of the model's alphabet that \w does not match.
NonWord == {"-", "/", ":", ".", " ", "+"}

IsWord(c) == c \notin NonWord

DigitVal(c) ==
    CASE c = "0" -> 0 [] c = "1" -> 1 [] c = "2" -> 2 [] c = "3" -> 3
      [] c = "4" -> 4 [] c = "5" -> 5 [] c = "6" -> 6 [] c = "7" -> 7
      [] c = "8" -> 8 [] c = "9" -> 9

RECURSIVE ToInt(_)
ToInt(ds) ==
    IF ds = <<>> THEN 0
    ELSE 10 * ToInt(SubSeq(ds, 1, Len(ds) - 1)) + DigitVal(ds[Len(ds)])

\* The longest prefix of s matched by \d+ (empty: no match).
RECURSIVE DigitPrefix(_)
DigitPrefix(s) ==
    IF s # <<>> /\ s[1] \in Digits THEN <<s[1]>> \o DigitPrefix(Tail(s))
    ELSE <<>>

EmptyString == << <<>> >>

RECURSIVE RStripSeg(_)
RStripSeg(s) ==
    IF s # <<>> /\ s[Len(s)] \in Whitespace
    THEN RStripSeg(SubSeq(s, 1, Len(s) - 1))
    ELSE s

\* str.rstrip(): a tab is whitespace, so trailing empty segments go too.
RECURSIVE rstrip(_)
rstrip(v) ==
    LET last == RStripSeg(v[Len(v)])
    IN  IF last = <<>> /\ Len(v) > 1
        THEN rstrip(SubSeq(v, 1, Len(v) - 1))
        ELSE SubSeq(v, 1, Len(v) - 1) \o <<last>>

RECURSIVE LStripSeg(_)
LStripSeg(s) ==
    IF s # <<>> /\ s[1] \in Whitespace THEN LStripSeg(Tail(s)) ELSE s

\* int(x) of a string: surrounding whitespace and one sign are accepted.
PyInt(v) ==
    LET s    == IF Len(v) = 1 THEN LStripSeg(RStripSeg(v[1])) ELSE <<>>
        neg  == s # <<>> /\ s[1] = "-"
        body == IF s # <<>> /\ s[1] \in {"-", "+"} THEN Tail(s) ELSE s
    IN  IF Len(v) = 1 /\ body # <<>> /\ \A j \in 1..Len(body) : body[j] \in Digits
        THEN [ok |-> TRUE, val |-> IF neg THEN 0 - ToInt(body) ELSE ToInt(body)]
        ELSE [ok |-> FALSE, val |-> 0]

----------------------------------------------------------------------------
(* Results of the helpers: a value, None, or a raised exception.            *)

Value(v) == [kind |-> "value", val |-> v, error |-> ""]
None == [kind |-> "none", val |-> <<>>, error |-> ""]
Raise(e) == [kind |-> "raise", val |-> <<>>, error |-> e]

\* The "lines" keyword argument: not passed (None), or a list.
NoLines == [given |-> FALSE, lines |-> <<>>]
Lines(ls) == [given |-> TRUE, lines |-> ls]

EmptyDict == [k \in {} |-> <<>>]

\* dict.update
Update(d, s) ==
    [k \in (DOMAIN d) \cup (DOMAIN s) |-> IF k \in DOMAIN s THEN s[k] ELSE d[k]]

----------------------------------------------------------------------------
(* get_value, lines 90-99.                                                  *)

\* The literal text that the key, used as a regular expression, matches.
Literal(key) ==
    CASE key = "Comment\\[IDR Study Accession\\]" -> "Comment[IDR Study Accession]"
      [] key = "Comment\\[IDR Experiment Name\\]" -> "Comment[IDR Experiment Name]"
      [] key = "Comment\\[IDR Screen Name\\]" -> "Comment[IDR Screen Name]"
      [] OTHER -> key

\* pattern.match(line) for "^key\t(.*)"
KeyMatch(key, line) == line.key = Literal(key) /\ Len(line.segs) >= 1

RECURSIVE get_value_loop(_, _, _, _)
get_value_loop(key, ls, j, fail_on_missing) ==
    IF j > Len(ls)
    THEN IF fail_on_missing THEN Raise(MissingMandatoryKey) ELSE None
    ELSE IF KeyMatch(key, ls[j]) THEN Value(rstrip(ls[j].segs))
         ELSE get_value_loop(key, ls, j + 1, fail_on_missing)

\* A get_value that searches the whole file whatever list it is given.
get_value_all(key, fail_on_missing, lines, file) ==
    get_value_loop(key, file, 1, fail_on_missing)

get_value(key, fail_on_missing, lines, file) ==
    LET ls == IF (~lines.given) \/ lines.lines = <<>> THEN file ELSE lines.lines
    IN  get_value_loop(key, ls, 1, fail_on_missing)

----------------------------------------------------------------------------
(* parse, lines 101-109.                                                    *)

Truthy(r) == r.kind = "value" /\ r.val # EmptyString

parse(mandatory_keys, optional_keys, lines, file) ==
    LET man(k) == get_value(k, TRUE, lines, file)
        opt(k) == get_value(k, FALSE, lines, file)
        raised == {j \in 1..Len(mandatory_keys) : man(mandatory_keys[j]).kind = "raise"}
        kept   == {k \in Range(optional_keys) : Truthy(opt(k))}
    IN  IF raised # {}
        THEN [kind |-> "raise", d |-> EmptyDict,
              error |-> man(mandatory_keys[CHOOSE j \in raised :
                                             \A l \in raised : j <= l]).error]
        ELSE [kind |-> "dict",
              d |-> [k \in Range(mandatory_keys) \cup kept |->
                        IF k \in Range(mandatory_keys) THEN man(k).val ELSE opt(k).val],
              error |-> ""]

----------------------------------------------------------------------------
(* get_lines, lines 111-126.                                                *)

\* PATTERN.match(line) for "^<type> Number\t(\d+)", and int(m.group(1)).
MarkerMatch(component_type, line) ==
    LET ds == IF Len(line.segs) >= 1 THEN DigitPrefix(line.segs[1]) ELSE <<>>
    IN  IF line.key = NumberKey(component_type) /\ ds # <<>>
        THEN [ok |-> TRUE, num |-> ToInt(ds)]
        ELSE [ok |-> FALSE, num |-> 0]

RECURSIVE get_lines_loop(_, _, _, _, _, _)
get_lines_loop(file, j, index, component_type, found, lines) ==
    IF j > Len(file)
    THEN IF lines = <<>> THEN Raise(MissingComponentSection) ELSE Value(lines)
    ELSE LET m      == MarkerMatch(component_type, file[j])
             found2 == found \/ (m.ok /\ m.num = index)
         IN  IF m.ok /\ m.num # index /\ found
             THEN Value(lines)
             ELSE get_lines_loop(file, j + 1, index, component_type, found2,
                                 IF found2 THEN Append(lines, file[j]) ELSE lines)

\* A get_lines that appends the line before it looks at the marker.
RECURSIVE get_lines_loop_late(_, _, _, _, _, _)
get_lines_loop_late(file, j, index, component_type, found, lines) ==
    IF j > Len(file)
    THEN IF lines = <<>> THEN Raise(MissingComponentSection) ELSE Value(lines)
    ELSE LET m      == MarkerMatch(component_type, file[j])
             found2 == found \/ (m.ok /\ m.num = index)
         IN  IF m.ok /\ m.num # index /\ found
             THEN Value(Append(lines, file[j]))
             ELSE get_lines_loop_late(file, j + 1, index, component_type, found2,
                                      IF found2 THEN Append(lines, file[j]) ELSE lines)

get_lines_inclusive(file, index, component_type) ==
    get_lines_loop_late(file, 1, index, component_type, FALSE, <<>>)

get_lines(file, index, component_type) ==
    get_lines_loop(file, 1, index, component_type, FALSE, <<>>)

----------------------------------------------------------------------------
(* parse_annotation_file, lines 128-156.                                    *)

\* A string as one sequence of characters, its tabs included.
RECURSIVE Flatten(_)
Flatten(v) ==
    IF Len(v) = 1 THEN v[1]
    ELSE Flatten(SubSeq(v, 1, Len(v) - 1)) \o <<"\t">> \o v[Len(v)]

AllWord(s) == s # <<>> /\ \A j \in 1..Len(s) : IsWord(s[j]) /\ s[j] # "\t"

\* pattern.match(name) for "(<accession>-\w+-\w+)/(\w+)$": the accession is
\* taken literally (the accessions of the model hold word characters only).
NameMatch(accession, name) ==
    LET a  == Len(accession)
        ok == {<<x, y>> \in (1..Len(name)) \X (1..Len(name)) :
                  /\ a + 1 < x /\ x + 1 < y /\ y < Len(name)
                  /\ SubSeq(name, 1, a) = accession
                  /\ name[a + 1] = "-"
                  /\ AllWord(SubSeq(name, a + 2, x - 1))
                  /\ name[x] = "-"
                  /\ AllWord(SubSeq(name, x + 1, y - 1))
                  /\ name[y] = "/"
                  /\ AllWord(SubSeq(name, y + 1, Len(name)))}
    IN  IF ok = {} THEN [ok |-> FALSE, group1 |-> <<>>, group2 |-> <<>>]
        ELSE LET xy == CHOOSE xy \in ok : TRUE
             IN  [ok |-> TRUE, group1 |-> SubSeq(name, 1, xy[2] - 1),
                  group2 |-> SubSeq(name, xy[2] + 1, Len(name))]

CsvExt == <<".", "c", "s", "v">>

CsvGzExt == <<".", "c", "s", "v", ".", "g", "z">>

AnnotationSuffix == <<"-", "a", "n", "n", "o", "t", "a", "t", "i", "o", "n">>

UrlHead == <<"h", "t", "t", "p", "s", ":", "/", "/", "g", "i", "t", "h", "u", "b", ".", "c", "o", "m", "/", "I", "D", "R", "/">>

UrlBlob == <<"/", "b", "l", "o", "b", "/", "m", "a", "s", "t", "e", "r", "/">>

IdrMetadata == <<"i", "d", "r", "-", "m", "e", "t", "a", "d", "a", "t", "a">>

\* base_url % (a, b, c)
base_url(a, b, c) == UrlHead \o a \o UrlBlob \o b \o <<"/">> \o c

\* fs: the answers of os.path.exists for the .csv file, the .csv.gz file and
\* the .git directory.  The result is the component as the method leaves it.
annotation_for(component, fs, extensions) ==
    LET accession_number == Flatten(component[StudyAccessionKey])
        name     == Flatten(component[NameKey(component["Type"])])
        m        == NameMatch(accession_number, name)
        basename == accession_number \o <<"-">> \o m.group2 \o AnnotationSuffix
        there(e) == IF e = CsvExt THEN fs.csv ELSE fs.gz
        hits     == {j \in 1..Len(extensions) : there(extensions[j])}
        first    == CHOOSE j \in hits : \A l \in hits : j <= l
        annotation_filename == basename \o extensions[first]
        annotation_url ==
            IF fs.git THEN base_url(m.group1, m.group2, annotation_filename)
            ELSE base_url(IdrMetadata, name, annotation_filename)
    IN  IF ~m.ok THEN [kind |-> "raise", d |-> component, error |-> UnmatchedComponentName]
        ELSE IF hits = {} THEN [kind |-> "dict", d |-> component, error |-> ""]
        ELSE [kind |-> "dict", error |-> "",
              d |-> Update(component,
                           [k \in {"Annotation File"} |-> annotation_url])]

parse_annotation_file_gz_first(component, fs) ==
    annotation_for(component, fs, <<CsvGzExt, CsvExt>>)

parse_annotation_file(component, fs) ==
    annotation_for(component, fs, <<CsvExt, CsvGzExt>>)

----------------------------------------------------------------------------
(* parse_publications, lines 158-184.                                       *)

\* The characters of the keys parse_ids strips, and of what is left of them.
KeyChars(key) ==
    CASE key = "Study PubMed ID" -> <<"S", "t", "u", "d", "y", " ", "P", "u", "b", "M", "e", "d", " ", "I", "D">>
      [] key = "Study PMC ID" -> <<"S", "t", "u", "d", "y", " ", "P", "M", "C", " ", "I", "D">>
      [] key = "Study DOI" -> <<"S", "t", "u", "d", "y", " ", "D", "O", "I">>
      [] key = "PubMed ID" -> <<"P", "u", "b", "M", "e", "d", " ", "I", "D">>
      [] key = "PMC ID" -> <<"P", "M", "C", " ", "I", "D">>
      [] key = "DOI" -> <<"D", "O", "I">>
      [] key = "ubMed ID" -> <<"u", "b", "M", "e", "d", " ", "I", "D">>
      [] key = "OI" -> <<"O", "I">>

Labels == {"Study PubMed ID", "Study PMC ID", "Study DOI", "PubMed ID", "PMC ID",
           "DOI", "ubMed ID", "OI"}

StripSet == {"S", "t", "u", "d", "y", " "}

RECURSIVE StripLeft(_, _)
StripLeft(s, cs) == IF s # <<>> /\ s[1] \in cs THEN StripLeft(Tail(s), cs) ELSE s

RECURSIVE StripRight(_, _)
StripRight(s, cs) ==
    IF s # <<>> /\ s[Len(s)] \in cs THEN StripRight(SubSeq(s, 1, Len(s) - 1), cs)
    ELSE s

\* key.strip("Study "): the characters of the argument are a set.
key2_of(key) ==
    LET left == StripRight(StripLeft(KeyChars(key), StripSet), StripSet)
    IN  CHOOSE l \in Labels : KeyChars(l) = left

\* p is a pattern of literal characters in which "." matches any character.
HasPrefix(s, p) ==
    Len(s) >= Len(p) /\ \A j \in 1..Len(p) : p[j] = "." \/ s[j] = p[j]

PubMedPattern == "\\d+"
PmcPattern == "PMC\\d+"
DoiPattern == "https?://(dx.)?doi.org/(.*)"

DoiHeads == {<<"h", "t", "t", "p", ":", "/", "/", "d", "o", "i", ".", "o", "r", "g", "/">>,
             <<"h", "t", "t", "p", "s", ":", "/", "/", "d", "o", "i", ".", "o", "r", "g", "/">>,
             <<"h", "t", "t", "p", ":", "/", "/", "d", "x", ".", "d", "o", "i", ".", "o", "r", "g", "/">>,
             <<"h", "t", "t", "p", "s", ":", "/", "/", "d", "x", ".", "d", "o", "i", ".", "o", "r", "g", "/">>}

\* pattern.match(s): anchored at the start only.
PatternMatch(pattern, s) ==
    CASE pattern = PubMedPattern -> DigitPrefix(s) # <<>>
      [] pattern = PmcPattern ->
           HasPrefix(s, <<"P", "M", "C">>) /\ DigitPrefix(SubSeq(s, 4, Len(s))) # <<>>
      [] pattern = DoiPattern -> \E h \in DoiHeads : HasPrefix(s, h)

\* The loop of parse_ids over split_ids, from index j (1-based here).
RECURSIVE parse_ids_loop(_, _, _, _, _)
parse_ids_loop(split_ids, j, key2, pattern, publications) ==
    IF j > Len(split_ids) THEN [kind |-> "ok", pubs |-> publications, error |-> ""]
    ELSE IF split_ids[j] = <<>>
         THEN parse_ids_loop(split_ids, j + 1, key2, pattern, publications)
    ELSE IF ~PatternMatch(pattern, split_ids[j])
         THEN [kind |-> "raise", pubs |-> publications, error |-> InvalidIdentifierFormat]
    ELSE IF j > Len(publications)
         THEN [kind |-> "raise", pubs |-> publications, error |-> IndexError]
    ELSE parse_ids_loop(split_ids, j + 1, key2, pattern,
             [publications EXCEPT ![j] =
                 Update(@, [k \in {key2} |-> split_ids[j]])])

parse_ids(st, key, pattern, publications) ==
    IF key \notin DOMAIN st THEN [kind |-> "ok", pubs |-> publications, error |-> ""]
    ELSE parse_ids_loop(st[key], 1, key2_of(key), pattern, publications)

\* The three parse_ids calls, in the order of lines 180-182.
all_ids(st, publications) ==
    LET a == parse_ids(st, "Study PubMed ID", PubMedPattern, publications)
        b == parse_ids(st, "Study PMC ID", PmcPattern, a.pubs)
        c == parse_ids(st, "Study DOI", DoiPattern, b.pubs)
    IN  IF a.kind = "raise" THEN a ELSE IF b.kind = "raise" THEN b ELSE c

Min(a, b) == IF a <= b THEN a ELSE b

zip_publications(titles, authors) ==
    [j \in 1..Min(Len(titles), Len(authors)) |->
        [k \in {"Title", "Author List"} |->
            IF k = "Title" THEN titles[j] ELSE authors[j]]]

\* The identifiers are examined before the lengths are compared.
parse_publications_ids_first(st) ==
    LET titles  == st["Study Publication Title"]
        authors == st["Study Author List"]
        ids     == all_ids(st, zip_publications(titles, authors))
    IN  IF ids.kind = "raise" THEN [kind |-> "raise", d |-> st, error |-> ids.error]
        ELSE IF Len(titles) # Len(authors)
        THEN [kind |-> "raise", d |-> st, error |-> MismatchedPublicationCount]
        ELSE [kind |-> "dict", error |-> "",
              d |-> Update(st, [k \in {"Publications"} |-> ids.pubs])]

parse_publications(st) ==
    LET titles  == st["Study Publication Title"]
        authors == st["Study Author List"]
        ids     == all_ids(st, zip_publications(titles, authors))
    IN  IF Len(titles) # Len(authors)
        THEN [kind |-> "raise", d |-> st, error |-> MismatchedPublicationCount]
        ELSE IF ids.kind = "raise" THEN [kind |-> "raise", d |-> st, error |-> ids.error]
        ELSE [kind |-> "dict", error |-> "",
              d |-> Update(st, [k \in {"Publications"} |-> ids.pubs])]

----------------------------------------------------------------------------
(* The study files of the model.                                            *)

MaxSections == 3

KV(k, segs) == [key |-> k, segs |-> segs]

Absent == <<>>

\* An optional line: absent, or the key with its value.
Opt(k, v) == IF v = Absent THEN <<>> ELSE <<KV(k, v)>>

Acc == <<"i", "d", "r", "1">>

NameS == <<"i", "d", "r", "1", "-", "a", "-", "b", "/", "s">>

NameT == <<"i", "d", "r", "1", "-", "a", "-", "b", "/", "t">>

NameU == <<"i", "d", "r", "1", "-", "c", "-", "d", "/", "u">>

BadName == <<"i", "d", "r", "1", "-", "a", "/", "s">>

ExpBlock(num, name, desc) ==
    <<KV("Experiment Number", <<num>>),
      KV("Comment[IDR Experiment Name]", <<name>>),
      KV("Experiment Description", <<desc>>),
      KV("Experiment Imaging Method", << <<"m">> >>)>>

ScrBlock(num, name) ==
    <<KV("Screen Number", <<num>>),
      KV("Comment[IDR Screen Name]", <<name>>),
      KV("Screen Description", << <<"e">> >>),
      KV("Screen Imaging Method", << <<"m">> >>),
      KV("Screen Type", << <<"y">> >>)>>

Blocks ==
    {ExpBlock(<<"1">>, NameS, <<"d">>), ExpBlock(<<"2">>, NameT, <<"d">>),
     ScrBlock(<<"1">>, NameU), ExpBlock(<<"1">>, BadName, <<"f">>)}

RECURSIVE Concat(_)
Concat(bs) == IF bs = <<>> THEN <<>> ELSE bs[1] \o Concat(Tail(bs))

Bodies == {Concat(bs) : bs \in UNION {[1..k -> Blocks] : k \in 0..MaxSections}}

BaseBody == ExpBlock(<<"1">>, NameS, <<"d">>)

Header(h) ==
    <<KV("Comment[IDR Study Accession]", <<Acc>>),
      KV("Study Title", <<h.title>>),
      KV("Study Description", << <<"D">> >>),
      KV("Study Type", << <<"k">> >>),
      KV("Study Publication Title", h.titles),
      KV("Study Author List", h.authors),
      KV("Study Organism", << <<"o">> >>)>>
    \o Opt("Study PubMed ID", h.pubmed) \o Opt("Study PMC ID", h.pmc)
    \o Opt("Study DOI", h.doi)
    \o Opt("Study Experiments Number", h.expN)
    \o Opt("Study Screens Number", h.scrN)
    \o <<KV("# Section with components", <<>>)>>

Doi1 == <<"h", "t", "t", "p", ":", "/", "/", "d", "o", "i", ".", "o", "r", "g", "/", "x">>

Doi2 == <<"h", "t", "t", "p", "s", ":", "/", "/", "d", "x", ".", "d", "o", "i", ".", "o", "r", "g", "/", "x">>

BadDoi == <<"d", "o", "i", ".", "o", "r", "g", "/", "x">>

Ids(a, b, c) == [pubmed |-> a, pmc |-> b, doi |-> c]

IdConfigs ==
    {Ids(Absent, Absent, Absent),
     Ids(<< <<"1">> >>, Absent, Absent),
     Ids(<< <<>>, <<"2">> >>, Absent, Absent),
     Ids(<< <<"1">>, <<>> >>, Absent, Absent),
     Ids(<< <<"1", "a">> >>, Absent, Absent),
     Ids(<< <<"a">> >>, Absent, Absent),
     Ids(<< <<"1">>, <<"a">> >>, Absent, Absent),
     Ids(<< <<"1">>, <<"2">> >>, Absent, Absent),
     Ids(Absent, << <<"P", "M", "C", "1">> >>, Absent),
     Ids(Absent, << <<"P", "1">> >>, Absent),
     Ids(Absent, Absent, <<Doi1>>),
     Ids(Absent, Absent, <<BadDoi>>),
     Ids(<< <<"1">> >>, << <<"P", "M", "C", "1">> >>, <<Doi2>>)}

PubLists == {<< <<"A">> >>, << <<"A">>, <<"B">> >>, << <<"A">>, <<>> >>}

AuthorLists == {<< <<"X">> >>, << <<"X">>, <<"Y">> >>}

ExpCounts == {Absent, << <<"0">> >>, << <<"1">> >>, << <<"2">> >>, << <<"-", "1">> >>}

ScrCounts == {Absent, << <<"0">> >>, << <<"1">> >>, << <<"x">> >>}

\* Headers that vary the component counts, and headers that vary the
\* publication fields and the study title.
CountHeaders ==
    {[title |-> <<"T">>, titles |-> << <<"A">> >>, authors |-> << <<"X">> >>,
      pubmed |-> << <<"1">> >>, pmc |-> Absent, doi |-> Absent,
      expN |-> e, scrN |-> c] : e \in ExpCounts, c \in ScrCounts}

PubHeaders ==
    {[title |-> t, titles |-> p, authors |-> a,
      pubmed |-> x.pubmed, pmc |-> x.pmc, doi |-> x.doi,
      expN |-> << <<"1">> >>, scrN |-> Absent] :
        t \in {<<"T">>, <<>>}, p \in PubLists, a \in AuthorLists, x \in IdConfigs}

Files ==
    {Header(h) \o b : h \in CountHeaders, b \in Bodies}
    \cup {Header(h) \o BaseBody : h \in PubHeaders}

----------------------------------------------------------------------------
(* The constructor, lines 64-88.  The initial state is the state after      *)
(* readlines(), line 69.                                                     *)

NoRemoval == [key |-> "", scope |-> "", index |-> 0]

NoCall == [op |-> "", index |-> 0, type |-> "", key |-> "", lines |-> NoLines,
           fail_on_missing |-> FALSE, result |-> None]

Fresh ==
    /\ pc = "start"
    /\ study = EmptyDict
    /\ components = <<>>
    /\ tIdx = 1
    /\ n = 0
    /\ i = 0
    /\ error = ""
    /\ probes = <<>>
    /\ git = "unprobed"
    /\ sections = <<>>

Init ==
    /\ study_lines \in Files
    /\ Fresh
    /\ removed = NoRemoval
    /\ call = NoCall

\* The exception leaves the constructor: no StudyParser object exists.
Fail(e) ==
    /\ pc' = "failed"
    /\ error' = e

\* Lines 70-71.
ParseStudy ==
    /\ pc = "start"
    /\ LET r == parse(MANDATORY_KEYS("Study"), OPTIONAL_KEYS("Study"), NoLines,
                      study_lines)
       IN  IF r.kind = "raise"
           THEN Fail(r.error) /\ UNCHANGED study
           ELSE study' = r.d /\ pc' = "publications" /\ UNCHANGED error
    /\ UNCHANGED <<study_lines, components, tIdx, n, i, probes, git, sections, removed, call>>

\* Line 72.
ParsePublications ==
    /\ pc = "publications"
    /\ LET r == parse_publications(study)
       IN  IF r.kind = "raise"
           THEN Fail(r.error) /\ UNCHANGED study
           ELSE study' = r.d /\ pc' = "type" /\ UNCHANGED error
    /\ UNCHANGED <<study_lines, components, tIdx, n, i, probes, git, sections, removed, call>>

\* int(self.study.get('Study %ss Number' % t, 0)), line 76.
count_of(st, t) ==
    IF CountKey(t) \in DOMAIN st THEN PyInt(st[CountKey(t)])
    ELSE [ok |-> TRUE, val |-> 0]

\* Lines 75-76: the next type of TYPES and its n.
EnterType ==
    /\ pc = "type"
    /\ tIdx <= Len(TYPES)
    /\ LET c == count_of(study, TYPES[tIdx])
       IN  IF c.ok
           THEN n' = c.val /\ i' = 0 /\ pc' = "component" /\ UNCHANGED error
           ELSE Fail(ValueError) /\ UNCHANGED <<n, i>>
    /\ UNCHANGED <<study_lines, study, components, tIdx, probes, git, sections, removed, call>>

\* Lines 82-83: the tag, then every field of the study.
merge_without_publications(d, t, st) ==
    Update(Update(d, [k \in {"Type"} |-> t]),
           [k \in (DOMAIN st) \ {"Publications"} |-> st[k]])

merge(d, t, st) == Update(Update(d, [k \in {"Type"} |-> t]), st)

\* range(n) has one more element.
more_iterations_one_more(done, count) == done < count + 1

\* Whether "for i in range(n)" has another iteration.
more_iterations(done, count) == done < count

\* What os.path.exists may answer for the two annotation files and for the
\* .git directory, which keeps the state it was first seen in (line 148 looks
\* at it only once an annotation file is found).
FsAnswers(g) ==
    {fs \in [csv : BOOLEAN, gz : BOOLEAN, git : BOOLEAN] :
        g = "unprobed" \/ fs.git = (g = "present")}

\* Lines 77-85: one iteration of the inner loop.
ParseComponent ==
    /\ pc = "component"
    /\ more_iterations(i, n)
    /\ LET t   == TYPES[tIdx]
           sec == get_lines(study_lines, i + 1, t)
           d   == parse(MANDATORY_KEYS(t), OPTIONAL_KEYS(t), Lines(sec.val),
                        study_lines)
           m   == merge(d.d, t, study)
       IN  IF sec.kind = "raise"
           THEN Fail(sec.error) /\ UNCHANGED <<components, i, probes, git, sections>>
           ELSE IF d.kind = "raise"
           THEN Fail(d.error) /\ UNCHANGED <<components, i, probes, git, sections>>
           ELSE \E fs \in FsAnswers(git) :
                  LET a == parse_annotation_file(m, fs)
                  IN  IF a.kind = "raise"
                      THEN Fail(a.error)
                           /\ UNCHANGED <<components, i, probes, git, sections>>
                      ELSE /\ components' = Append(components, a.d)
                           /\ probes' = Append(probes, fs)
                           /\ git' = IF fs.csv \/ fs.gz
                                     THEN (IF fs.git THEN "present" ELSE "absent")
                                     ELSE git
                           /\ sections' = Append(sections, sec.val)
                           /\ i' = i + 1
                           /\ UNCHANGED <<pc, error>>
    /\ UNCHANGED <<study_lines, study, tIdx, n, removed, call>>

\* The inner loop is over: on to the next type.
ExitType ==
    /\ pc = "component"
    /\ ~more_iterations(i, n)
    /\ tIdx' = tIdx + 1
    /\ pc' = "type"
    /\ UNCHANGED <<study_lines, study, components, n, i, error, probes, git,
                   sections, removed, call>>

\* Lines 87-88.
Finish ==
    /\ pc = "type"
    /\ tIdx > Len(TYPES)
    /\ IF components = <<>> THEN Fail(NoComponentsFound)
       ELSE pc' = "done" /\ UNCHANGED error
    /\ UNCHANGED <<study_lines, study, components, tIdx, n, i, probes, git,
                   sections, removed, call>>

----------------------------------------------------------------------------
(* A second construction, on the file of a successful one with the line of  *)
(* one mandatory key removed.                                                *)

Occurrences(key, ls) == Cardinality({j \in 1..Len(ls) : KeyMatch(key, ls[j])})

TypeOf(c) == components[c]["Type"]

\* The 1-based index of component c among the components of its type.
IndexOf(c) == Cardinality({b \in 1..c : TypeOf(b) = TypeOf(c)})

\* Where the section of component c starts in the file.
SectionStart(c) ==
    CHOOSE j \in 1..Len(study_lines) :
        /\ MarkerMatch(TypeOf(c), study_lines[j]) = [ok |-> TRUE, num |-> IndexOf(c)]
        /\ \A l \in 1..(j - 1) :
              MarkerMatch(TypeOf(c), study_lines[l]) # [ok |-> TRUE, num |-> IndexOf(c)]

\* Each key occurs once: the study's in the file, a component's in its section.
WellFormed ==
    /\ pc = "done"
    /\ \A k \in Range(MANDATORY_KEYS("Study")) : Occurrences(k, study_lines) = 1
    /\ \A c \in 1..Len(components) :
          \A k \in Range(MANDATORY_KEYS(TypeOf(c))) : Occurrences(k, sections[c]) = 1

\* The lines that hold a mandatory key of the study, or of a component
\* within that component's section.
Targets ==
    {[pos |-> j, key |-> k, scope |-> "Study", index |-> 0] :
        <<j, k>> \in {x \in (1..Len(study_lines)) \X Range(MANDATORY_KEYS("Study")) :
                        KeyMatch(x[2], study_lines[x[1]])}}
    \cup UNION {
        {[pos |-> j, key |-> k, scope |-> TypeOf(c), index |-> IndexOf(c)] :
            <<j, k>> \in {x \in (SectionStart(c)..(SectionStart(c) + Len(sections[c]) - 1))
                                  \X Range(MANDATORY_KEYS(TypeOf(c))) :
                            KeyMatch(x[2], study_lines[x[1]])}} :
        c \in 1..Len(components)}

RemoveAt(ls, j) == SubSeq(ls, 1, j - 1) \o SubSeq(ls, j + 1, Len(ls))

RemoveLine ==
    /\ removed = NoRemoval
    /\ WellFormed
    /\ \E x \in Targets :
         /\ study_lines' = RemoveAt(study_lines, x.pos)
         /\ removed' = [key |-> x.key, scope |-> x.scope, index |-> x.index]
    /\ pc' = "start"
    /\ study' = EmptyDict
    /\ components' = <<>>
    /\ tIdx' = 1
    /\ n' = 0
    /\ i' = 0
    /\ error' = ""
    /\ probes' = <<>>
    /\ git' = "unprobed"
    /\ sections' = <<>>
    /\ UNCHANGED call

Next ==
    \/ ParseStudy
    \/ ParsePublications
    \/ EnterType
    \/ ParseComponent
    \/ ExitType
    \/ Finish
    \/ RemoveLine

Spec == Init /\ [][Next]_vars

----------------------------------------------------------------------------
(* get_lines and get_value applied directly to the lines read.              *)

MaxIndex == 3

FnHeader ==
    [title |-> <<"T">>, titles |-> << <<"A">> >>, authors |-> << <<"X">> >>,
     pubmed |-> << <<"1">>, <<>>, <<>> >>, pmc |-> Absent, doi |-> Absent,
     expN |-> << <<"1">> >>, scrN |-> Absent]

FnFiles == {Header(FnHeader) \o b : b \in Bodies}

FnKeys ==
    {"Study Title", "Study PubMed ID", "Study PMC ID", NameKey("Experiment"),
     "Experiment Description", "Screen Type"}

MarkerPositions(ls) ==
    {j \in 1..Len(ls) : \E t \in Range(TYPES) : MarkerMatch(t, ls[j]).ok}

\* The values of the "lines" argument tried: None, the empty list, and runs
\* of the file that start at its first line or at a marker.
Subsets(ls) ==
    {NoLines, Lines(<<>>)}
    \cup {Lines(SubSeq(ls, a, b)) :
             <<a, b>> \in {x \in (MarkerPositions(ls) \cup {1}) \X (1..Len(ls)) :
                             x[2] \in {x[1] + 1, x[1] + 3, Len(ls)}}}

InitFn ==
    /\ study_lines \in FnFiles
    /\ Fresh
    /\ removed = NoRemoval
    /\ call = NoCall

\* One call is observed per file read.
CallGetLines ==
    /\ call = NoCall
    /\ \E index \in 0..MaxIndex, t \in Range(TYPES) :
         call' = [op |-> "get_lines", index |-> index, type |-> t, key |-> "",
                  lines |-> NoLines, fail_on_missing |-> FALSE,
                  result |-> get_lines(study_lines, index, t)]
    /\ UNCHANGED <<study_lines, pc, study, components, tIdx, n, i, error, probes,
                   git, sections, removed>>

CallGetValue ==
    /\ call = NoCall
    /\ \E key \in FnKeys, ls \in Subsets(study_lines), f \in BOOLEAN :
         call' = [op |-> "get_value", index |-> 0, type |-> "", key |-> key,
                  lines |-> ls, fail_on_missing |-> f,
                  result |-> get_value(key, f, ls, study_lines)]
    /\ UNCHANGED <<study_lines, pc, study, components, tIdx, n, i, error, probes,
                   git, sections, removed>>

NextFn ==
    \/ CallGetLines
    \/ CallGetValue

SpecFn == InitFn /\ [][NextFn]_vars

----------------------------------------------------------------------------
(* Properties.                                                              *)

IsMarker(line, t, k) == MarkerMatch(t, line) = [ok |-> TRUE, num |-> k]

OtherMarker(line, t, k) == MarkerMatch(t, line).ok /\ MarkerMatch(t, line).num # k

Least(S) == CHOOSE x \in S : \A y \in S : x <= y

\* The run of lines from the first marker of (t, k) up to, and without, the
\* first later marker of t with another number.
SectionOf(ls, t, k) ==
    LET first == Least({j \in 1..Len(ls) : IsMarker(ls[j], t, k)})
        stops == {j \in (first + 1)..Len(ls) : OtherMarker(ls[j], t, k)}
    IN  SubSeq(ls, first, IF stops = {} THEN Len(ls) ELSE Least(stops) - 1)

\* C1: get_lines(index, type) returns exactly the lines from the first marker
\* line of (type, index) up to, and not including, the first later marker line
\* of that type with a different number (or to the end of the file); no line
\* of the result is such a differing marker; and when no marker of (type,
\* index) occurs the call raises the missing-component error.
C1_SectionExtraction ==
    call.op = "get_lines" =>
        IF \E j \in 1..Len(study_lines) : IsMarker(study_lines[j], call.type, call.index)
        THEN /\ call.result = Value(SectionOf(study_lines, call.type, call.index))
             /\ \A j \in 1..Len(call.result.val) :
                   ~OtherMarker(call.result.val[j], call.type, call.index)
        ELSE call.result = Raise(MissingComponentSection)

\* A call whose section is cut short by a later marker with another number.
C1_Witness ==
    /\ call.op = "get_lines"
    /\ call.result.kind = "value"
    /\ \E j \in 1..Len(study_lines) :
          /\ OtherMarker(study_lines[j], call.type, call.index)
          /\ \E l \in 1..(j - 1) : IsMarker(study_lines[l], call.type, call.index)
    /\ Len(call.result.val) < Len(study_lines)

\* C2: the section of each component parsed holds no marker line
\* "<T> Number<tab><k>" of another component instance, for T either type.
C2_OneComponentOnly ==
    \A c \in 1..Len(sections) :
        \A j \in 1..Len(sections[c]) :
            \A t \in Range(TYPES) :
                MarkerMatch(t, sections[c][j]).ok =>
                    /\ t = TypeOf(c)
                    /\ MarkerMatch(t, sections[c][j]).num = IndexOf(c)

\* C3: when construction succeeds, every mandatory key of the study and of
\* each component maps to a non-empty string.
C3_MandatoryNonEmpty ==
    pc = "done" =>
        /\ \A k \in Range(MANDATORY_KEYS("Study")) : study[k] # EmptyString
        /\ \A c \in 1..Len(components) :
              \A k \in Range(MANDATORY_KEYS(TypeOf(c))) :
                  components[c][k] # EmptyString

Terminal == pc \in {"done", "failed"}

IsNumberKey(k) == \E t \in Range(TYPES) : k = NumberKey(t)

\* C4, as claimed: with the line of any one mandatory key removed from a
\* well-formed file, construction ends in the missing-mandatory-key error.
C4_Original ==
    (removed # NoRemoval /\ Terminal) =>
        (pc = "failed" /\ error = MissingMandatoryKey)

\* C4, amended: that holds for every mandatory key but "<Type> Number"; with
\* a component's "<Type> Number" line removed and no marker of that type and
\* number left in the file, construction ends in the missing-component error.
\* Either way no component list is produced.
C4_Amended ==
    (removed # NoRemoval /\ Terminal) =>
        /\ ~IsNumberKey(removed.key) =>
              (pc = "failed" /\ error = MissingMandatoryKey)
        /\ ( /\ IsNumberKey(removed.key)
             /\ \A j \in 1..Len(study_lines) :
                   ~IsMarker(study_lines[j], removed.scope, removed.index) ) =>
              (pc = "failed" /\ error = MissingComponentSection)

\* A component's description line was removed and construction has failed.
C4_Witness ==
    /\ removed.scope = "Screen"
    /\ removed.key = "Screen Description"
    /\ pc = "failed"
    /\ error = MissingMandatoryKey

CountOfType(t) == Cardinality({c \in 1..Len(components) : TypeOf(c) = t})

\* Experiments before screens, and the k-th component of a type is the one
\* numbered k.
Ordered ==
    /\ \A c, b \in 1..Len(components) :
          (TypeOf(c) = "Experiment" /\ TypeOf(b) = "Screen") => c < b
    /\ \A c \in 1..Len(components) :
          ToInt(DigitPrefix(components[c][NumberKey(TypeOf(c))][1])) = IndexOf(c)

PublicationsParsed == "Publications" \in DOMAIN study

Max0(x) == IF x < 0 THEN 0 ELSE x

\* C5, as claimed: on success the number of components of each type is the
\* integer value of its count field (0 if absent), in order, and the list is
\* not empty; with both counts 0 construction ends in the no-components error.
C5_Original ==
    /\ pc = "done" =>
          /\ \A t \in Range(TYPES) : CountOfType(t) = count_of(study, t).val
          /\ Ordered
          /\ components # <<>>
    /\ ( /\ Terminal
         /\ PublicationsParsed
         /\ \A t \in Range(TYPES) : count_of(study, t) = [ok |-> TRUE, val |-> 0] ) =>
          (pc = "failed" /\ error = NoComponentsFound)

\* C5, amended: a negative count field yields no component of that type, so
\* the number of components is the integer value when it is not negative and
\* 0 when it is negative or absent; with no positive count construction ends
\* in the no-components error.
C5_Amended ==
    /\ pc = "done" =>
          /\ \A t \in Range(TYPES) : CountOfType(t) = Max0(count_of(study, t).val)
          /\ Ordered
          /\ components # <<>>
    /\ ( /\ Terminal
         /\ PublicationsParsed
         /\ \A t \in Range(TYPES) : count_of(study, t).ok /\ count_of(study, t).val <= 0 ) =>
          (pc = "failed" /\ error = NoComponentsFound)

\* Two experiments and a screen, parsed in that order.
C5_Witness ==
    /\ pc = "done"
    /\ CountOfType("Experiment") = 2
    /\ CountOfType("Screen") = 1

AllDigits(s) == s # <<>> /\ \A j \in 1..Len(s) : s[j] \in Digits

\* The formats as the specification words them.
Conforms(key, s) ==
    CASE key = "Study PubMed ID" -> AllDigits(s)
      [] key = "Study PMC ID" ->
           Len(s) > 3 /\ SubSeq(s, 1, 3) = <<"P", "M", "C">>
                      /\ AllDigits(SubSeq(s, 4, Len(s)))
      [] key = "Study DOI" ->
           \E h \in DoiHeads : Len(s) >= Len(h) /\ SubSeq(s, 1, Len(h)) = h

IdLabel(key) ==
    CASE key = "Study PubMed ID" -> "PubMed ID"
      [] key = "Study PMC ID" -> "PMC ID"
      [] key = "Study DOI" -> "DOI"

IdKeys == {"Study PubMed ID", "Study PMC ID", "Study DOI"}

StudyParsed == "Study Publication Title" \in DOMAIN study

\* C6: every non-empty entry i of the three identifier fields is accepted
\* only if it conforms to its format, and is then stored under its label on
\* publication i; an entry that does not conform ends construction in the
\* invalid-identifier error.
C6_IdentifierFormats ==
    /\ PublicationsParsed =>
          \A key \in IdKeys \cap DOMAIN study :
              \A j \in 1..Len(study[key]) :
                  study[key][j] # <<>> =>
                      /\ Conforms(key, study[key][j])
                      /\ j \in 1..Len(study["Publications"])
                      /\ IdLabel(key) \in DOMAIN study["Publications"][j]
                      /\ study["Publications"][j][IdLabel(key)] = study[key][j]
    /\ ( /\ StudyParsed
         /\ pc # "publications"
         /\ Len(study["Study Publication Title"]) = Len(study["Study Author List"])
         /\ \E key \in IdKeys \cap DOMAIN study :
               \E j \in 1..Len(study[key]) :
                   study[key][j] # <<>> /\ ~Conforms(key, study[key][j]) ) =>
          (pc = "failed" /\ error = InvalidIdentifierFormat)

\* C7: when the numbers of titles and of authors differ, construction ends
\* in the mismatched-count error whatever the identifiers are; when they are
\* equal and the publications are built, there is one record per index with
\* that index's title and author.
C7_PublicationCounts ==
    (StudyParsed /\ pc # "publications") =>
        LET titles  == study["Study Publication Title"]
            authors == study["Study Author List"]
        IN  /\ Len(titles) # Len(authors) =>
                  (pc = "failed" /\ error = MismatchedPublicationCount)
            /\ PublicationsParsed =>
                  /\ Len(titles) = Len(authors)
                  /\ Len(study["Publications"]) = Len(titles)
                  /\ \A j \in 1..Len(titles) :
                        /\ study["Publications"][j]["Title"] = titles[j]
                        /\ study["Publications"][j]["Author List"] = authors[j]

\* The counts differ and an identifier is malformed as well.
C7_Witness ==
    /\ pc = "failed"
    /\ error = MismatchedPublicationCount
    /\ "Study PubMed ID" \in DOMAIN study
    /\ ~PatternMatch(PubMedPattern, study["Study PubMed ID"][1])

EndsWith(s, e) == Len(s) >= Len(e) /\ SubSeq(s, Len(s) - Len(e) + 1, Len(s)) = e

HasAnnotation(c) == "Annotation File" \in DOMAIN components[c]

\* What follows the "/" of a component name.
RECURSIVE AfterSlash(_)
AfterSlash(s) ==
    IF s = <<>> \/ s[Len(s)] = "/" THEN <<>>
    ELSE AfterSlash(SubSeq(s, 1, Len(s) - 1)) \o <<s[Len(s)]>>

\* "<accession>-<slug>-annotation" for component c.
FileName(c) ==
    Flatten(components[c][StudyAccessionKey]) \o <<"-">>
        \o AfterSlash(Flatten(components[c][NameKey(TypeOf(c))]))
        \o AnnotationSuffix

\* C8: a component has an 'Annotation File' exactly when one of the two files
\* exists; its URL ends in "<accession>-<slug>-annotation.csv" when the .csv
\* file exists (whether or not the .csv.gz file does) and in
\* "<accession>-<slug>-annotation.csv.gz" when only that one exists; and a
\* component whose name matches is never refused for want of a file.
C8_AnnotationFile ==
    /\ \A c \in 1..Len(components) :
          /\ HasAnnotation(c) <=> (probes[c].csv \/ probes[c].gz)
          /\ probes[c].csv =>
                /\ EndsWith(components[c]["Annotation File"], FileName(c) \o CsvExt)
                /\ ~EndsWith(components[c]["Annotation File"], CsvGzExt)
          /\ (~probes[c].csv /\ probes[c].gz) =>
                EndsWith(components[c]["Annotation File"], FileName(c) \o CsvGzExt)
    /\ error = UnmatchedComponentName =>
          LET t == TYPES[tIdx]
              d == parse(MANDATORY_KEYS(t), OPTIONAL_KEYS(t),
                         Lines(get_lines(study_lines, i + 1, t).val), study_lines).d
          IN  ~NameMatch(Flatten(study[StudyAccessionKey]), Flatten(d[NameKey(t)])).ok

\* Both files exist for one component, only the .csv.gz file for another.
C8_Witness ==
    \E c, b \in 1..Len(components) :
        /\ probes[c].csv /\ probes[c].gz /\ HasAnnotation(c)
        /\ ~probes[b].csv /\ probes[b].gz /\ HasAnnotation(b)

OwnKeys(t) == Range(MANDATORY_KEYS(t)) \cup Range(OPTIONAL_KEYS(t)) \cup {"Type"}

\* C9: every component is tagged with its type, carries every mandatory key
\* of its type and every field of the study, 'Publications' included; a
\* field of the component's own schema keeps the value parsed from its
\* section.
C9_ComponentRecord ==
    \A c \in 1..Len(components) :
        LET t   == TypeOf(c)
            own == parse(MANDATORY_KEYS(t), OPTIONAL_KEYS(t), Lines(sections[c]),
                         study_lines).d
        IN  /\ "Type" \in DOMAIN components[c]
            /\ t \in Range(TYPES)
            /\ Range(MANDATORY_KEYS(t)) \subseteq DOMAIN components[c]
            /\ "Publications" \in DOMAIN components[c]
            /\ \A k \in DOMAIN study :
                  /\ k \in DOMAIN components[c]
                  /\ k \notin OwnKeys(t) => components[c][k] = study[k]
            /\ \A k \in DOMAIN own : components[c][k] = own[k]

\* A finished list holding an experiment and a screen.
C9_Witness ==
    /\ pc = "done"
    /\ CountOfType("Experiment") >= 1
    /\ CountOfType("Screen") >= 1

\* C10: get_value looks only at the list passed whenever one is passed, the
\* empty list included, and at the whole file when none is; it returns the
\* value of the first matching line, and with no matching line None when
\* fail_on_missing is false and the missing-key error when it is true.
C10_GetValueSubset ==
    call.op = "get_value" =>
        LET ls   == IF call.lines.given THEN call.lines.lines ELSE study_lines
            hits == {j \in 1..Len(ls) : KeyMatch(call.key, ls[j])}
        IN  IF hits = {}
            THEN call.result = (IF call.fail_on_missing THEN Raise(MissingMandatoryKey)
                                ELSE None)
            ELSE call.result = Value(rstrip(ls[Least(hits)].segs))

====
